---- MODULE Spec2Model ----
(***************************************************************************)
(* Model of the ENAS ResNet supernet bookkeeping of models/resnet_enas.py: *)
(* the four residual block constructors with optional parameter sharing,   *)
(* the network assemblers ResNetV1Enas / ResNetV2Enas and the registry     *)
(* get_resnet_enas; of the evaluation script bmxnet_examples/evaluation.py *)
(* (prepare_net and the evaluation loop) and of train_enas.train_net_enas. *)
(*                                                                         *)
(* Objects live in a heap: `blocks` is the sequence of block objects built *)
(* so far (a block's identity is its index), `storage` is the sequence of  *)
(* parameter storages (a ParameterDict's identity is its index).           *)
(***************************************************************************)
EXTENDS Integers, Sequences, FiniteSets, TLC

VARIABLES
  blocks,    \* heap of constructed block objects
  storage,   \* heap of parameter storages referenced by the layers
  last,      \* the most recent operation and how it ended
  nCalls,    \* number of block constructor calls made so far
  nUpdates,  \* number of weight updates made so far
  net,       \* the network object the last assembler call returned
  requests,  \* the block(...) calls the last assembler call made, in order
  ev,        \* the run of the evaluation script: options, parameters, counters
  train      \* the run of train_net_enas: position and what it has done

vars == <<blocks, storage, last, nCalls, nUpdates, net, requests, ev, train>>

\* ---------------------------------------------------------------- bounds
MaxCalls == 2
MaxShared == 3
MaxAliased == 2
MaxUpdates == 1
MaxStages == 2
MaxStageLayers == 2
MaxRanged == 1
MaxMeasured == 2
MaxParams == 2
MaxBatches == 3
MaxEpochs == 3

\* ------------------------------------------------------- python values
\* Python's None, for a params argument / a weights attribute.
None == 0
\* An attribute the constructor never assigned (reading it raises AttributeError).
Unset == -1

\* default of the grad_cancel keyword of the block constructors (1.0)
DefaultGradCancel == 1

Variants == {"BasicBlockV1Enas", "BottleneckV1Enas", "BasicBlockV2Enas", "BottleneckV2Enas"}

\* the search space of the enas_unit decorator: bits = Categorical(1, 32)
BitsSpace == {1, 32}

\* value every freshly allocated parameter holds before any update
InitialValue == 0
WeightValues == {0, 1}

\* ------------------------------------------------ python call binding
\* def _conv3x3(bits, channels, stride, in_channels, params=None)
conv3x3_formals == <<"bits", "channels", "stride", "in_channels", "params">>
conv3x3_required == {"bits", "channels", "stride", "in_channels"}

\* Python binds npos positional arguments to the first npos formals and the
\* keywords kw by name; the call raises TypeError unless every keyword names
\* a formal not already bound positionally and every required formal is bound.
CallBinds(formals, required, npos, kw) ==
  LET positional == {formals[i] : i \in 1..(IF npos <= Len(formals) THEN npos ELSE Len(formals))}
      names == {formals[i] : i \in 1..Len(formals)}
  IN /\ npos <= Len(formals)
     /\ kw \subseteq names
     /\ kw \cap positional = {}
     /\ required \subseteq (positional \cup kw)

\* ------------------------------------------------------------- layers
NoLayer == [type |-> "none", params |-> None]

\* nn.BatchNorm(): always allocates its own statistics, owned by block self.
BatchNorm(channels, self, st) ==
  [status |-> "ok",
   layer |-> [type |-> "bn", params |-> Len(st) + 1],
   st |-> Append(st, [value |-> InitialValue, owner |-> self, kind |-> "bn",
                      shape |-> <<channels>>])]

\* A quantized convolution (activated_conv / QConv2D) with weight shape
\* (channels, in_channels, kernel_size, kernel_size).  params = None allocates a
\* fresh weight owned by block self; otherwise the layer uses the given
\* ParameterDict, and a stored weight of another shape is rejected.
QConv2D(channels, kernel_size, in_channels, params, self, st) ==
  LET shape == <<channels, in_channels, kernel_size>> IN
  IF params = None
    THEN [status |-> "ok",
          layer |-> [type |-> "qconv", params |-> Len(st) + 1],
          st |-> Append(st, [value |-> InitialValue, owner |-> self, kind |-> "qconv",
                             shape |-> shape])]
    ELSE IF params = Unset
      THEN [status |-> "AttributeError", layer |-> NoLayer, st |-> st]
      ELSE IF st[params].shape = shape
        THEN [status |-> "ok", layer |-> [type |-> "qconv", params |-> params], st |-> st]
        ELSE [status |-> "ShapeMismatch", layer |-> NoLayer, st |-> st]

Activation == [type |-> "relu", params |-> None]

NoBlock == [variant |-> "none"]

Raise(error, st) == [status |-> error, block |-> NoBlock, st |-> st]

\* first status that is not "ok" in a sequence of layer results, else "ok"
RECURSIVE FirstError(_)
FirstError(rs) ==
  IF rs = <<>> THEN "ok"
  ELSE IF Head(rs).status # "ok" THEN Head(rs).status ELSE FirstError(Tail(rs))

\* ------------------------------------------------------------- blocks
\* a block object; body / downsample are the sub-layer sequences in the order
\* the constructor adds them (downsample = <<>> is Python's None)
MkBlock(variant, a, partner, bn, body, downsample, c1, c2, c3, ds) ==
  [variant |-> variant, channels |-> a.channels, stride |-> a.stride,
   in_channels |-> a.in_channels, bits |-> a.bits, grad_cancel |-> a.grad_cancel,
   has_downsample |-> a.downsample, partner |-> partner,
   bn |-> bn, body |-> body, downsample |-> downsample,
   conv1_weights |-> c1, conv2_weights |-> c2, conv3_weights |-> c3,
   downsample_conv_weights |-> ds]

\* _conv3x3 called with npos positional arguments and the keywords kw
conv3x3(npos, kw, channels, in_channels, params, self, st) ==
  IF ~CallBinds(conv3x3_formals, conv3x3_required, npos, kw)
    THEN [status |-> "TypeError", layer |-> NoLayer, st |-> st]
    ELSE QConv2D(channels, 3, in_channels, params, self, st)

\* variant: the partner's bits are compared with the new block's
PartnerLayerWeights_BitsChecked(a, partner, heap) ==
  IF partner = None
    THEN [error |-> "ok", conv1 |-> None, conv2 |-> None, ds |-> None]
    ELSE IF heap[partner].bits # a.bits
      THEN [error |-> "ShapeMismatch", conv1 |-> None, conv2 |-> None, ds |-> None]
      ELSE IF a.downsample /\ heap[partner].downsample = <<>>
        THEN [error |-> "TypeError", conv1 |-> None, conv2 |-> None, ds |-> None]
        ELSE [error |-> "ok",
              conv1 |-> heap[partner].body[1].params,
              conv2 |-> heap[partner].body[3].params,
              ds |-> IF a.downsample THEN heap[partner].downsample[1].params ELSE None]

\* variant: the second convolution takes the partner's first convolution
PartnerLayerWeights_Swapped(a, partner, heap) ==
  IF partner = None
    THEN [error |-> "ok", conv1 |-> None, conv2 |-> None, ds |-> None]
    ELSE IF a.downsample /\ heap[partner].downsample = <<>>
      THEN [error |-> "TypeError", conv1 |-> None, conv2 |-> None, ds |-> None]
      ELSE [error |-> "ok",
            conv1 |-> heap[partner].body[1].params,
            conv2 |-> heap[partner].body[1].params,
            ds |-> IF a.downsample THEN heap[partner].downsample[1].params ELSE None]

\* variant: the shortcut convolution is never taken from the partner
PartnerLayerWeights_OwnDownsample(a, partner, heap) ==
  IF partner = None
    THEN [error |-> "ok", conv1 |-> None, conv2 |-> None, ds |-> None]
    ELSE IF a.downsample /\ heap[partner].downsample = <<>>
      THEN [error |-> "TypeError", conv1 |-> None, conv2 |-> None, ds |-> None]
      ELSE [error |-> "ok",
            conv1 |-> heap[partner].body[1].params,
            conv2 |-> heap[partner].body[3].params,
            ds |-> None]

\* the weights BasicBlockV1Enas.__init__ takes from its partner's layers:
\* partner.body[0], partner.body[2] and, when downsampling, partner.downsample[0]
\* (subscripting the partner's downsample = None raises TypeError)
PartnerLayerWeights(a, partner, heap) ==
  IF partner = None
    THEN [error |-> "ok", conv1 |-> None, conv2 |-> None, ds |-> None]
    ELSE IF a.downsample /\ heap[partner].downsample = <<>>
      THEN [error |-> "TypeError", conv1 |-> None, conv2 |-> None, ds |-> None]
      ELSE [error |-> "ok",
            conv1 |-> heap[partner].body[1].params,
            conv2 |-> heap[partner].body[3].params,
            ds |-> IF a.downsample THEN heap[partner].downsample[1].params ELSE None]

\* variant: only a block built without a partner has recorded its weights
PartnerAttrWeights_PrimaryOnly(a, partner, heap) ==
  IF partner = None
    THEN [error |-> "ok", conv1 |-> None, conv2 |-> None, ds |-> None]
    ELSE IF a.downsample /\ heap[partner].downsample_conv_weights = Unset
      THEN [error |-> "AttributeError", conv1 |-> None, conv2 |-> None, ds |-> None]
      ELSE IF heap[partner].partner # None
        THEN [error |-> "ok", conv1 |-> None, conv2 |-> None, ds |-> None]
        ELSE [error |-> "ok",
              conv1 |-> heap[partner].conv1_weights,
              conv2 |-> heap[partner].conv2_weights,
              ds |-> IF a.downsample THEN heap[partner].downsample_conv_weights ELSE None]

\* variant: the second convolution is not taken from the partner
PartnerAttrWeights_OwnConv2(a, partner, heap) ==
  IF partner = None
    THEN [error |-> "ok", conv1 |-> None, conv2 |-> None, ds |-> None]
    ELSE IF a.downsample /\ heap[partner].downsample_conv_weights = Unset
      THEN [error |-> "AttributeError", conv1 |-> None, conv2 |-> None, ds |-> None]
      ELSE [error |-> "ok",
            conv1 |-> heap[partner].conv1_weights,
            conv2 |-> None,
            ds |-> IF a.downsample THEN heap[partner].downsample_conv_weights ELSE None]

\* the weights BasicBlockV2Enas.__init__ takes from its partner's attributes
\* conv1_weights, conv2_weights and, when downsampling, downsample_conv_weights
\* (an attribute the partner never assigned raises AttributeError)
PartnerAttrWeights(a, partner, heap) ==
  IF partner = None
    THEN [error |-> "ok", conv1 |-> None, conv2 |-> None, ds |-> None]
    ELSE IF a.downsample /\ heap[partner].downsample_conv_weights = Unset
      THEN [error |-> "AttributeError", conv1 |-> None, conv2 |-> None, ds |-> None]
      ELSE [error |-> "ok",
            conv1 |-> heap[partner].conv1_weights,
            conv2 |-> heap[partner].conv2_weights,
            ds |-> IF a.downsample THEN heap[partner].downsample_conv_weights ELSE None]

\* BasicBlockV1Enas.__init__ followed by _init (init=True)
BasicBlockV1Enas(a, partner, self, heap, st) ==
  LET w == PartnerLayerWeights(a, partner, heap)
      c1 == QConv2D(a.channels, 3, a.in_channels, w.conv1, self, st)
      b1 == BatchNorm(a.channels, self, c1.st)
      c2 == QConv2D(a.channels, 3, a.channels, w.conv2, self, b1.st)
      b2 == BatchNorm(a.channels, self, c2.st)
      d1 == QConv2D(a.channels, 1, a.in_channels, w.ds, self, b2.st)
      d2 == BatchNorm(a.channels, self, d1.st)
      err == FirstError(IF a.downsample THEN <<c1, b1, c2, b2, d1, d2>>
                                        ELSE <<c1, b1, c2, b2>>)
  IN IF w.error # "ok" THEN Raise(w.error, st)
     ELSE IF err # "ok" THEN Raise(err, st)
     ELSE [status |-> "ok",
           block |-> MkBlock("BasicBlockV1Enas", a, partner, None,
                             <<c1.layer, b1.layer, c2.layer, b2.layer>>,
                             IF a.downsample THEN <<d1.layer, d2.layer>> ELSE <<>>,
                             Unset, Unset, Unset, Unset),
           st |-> IF a.downsample THEN d2.st ELSE b2.st]

\* BottleneckV1Enas.__init__
BottleneckV1Enas(a, partner, self, heap, st) ==
  LET conv1_weights == IF partner # None THEN heap[partner].conv1_weights ELSE None
      conv2_weights == IF partner # None THEN heap[partner].conv2_weights ELSE None
      conv3_weights == IF partner # None THEN heap[partner].conv3_weights ELSE None
      downsample_conv_weights ==
        IF partner # None /\ a.downsample
          THEN heap[partner].downsample_conv_weights ELSE None
      c1 == QConv2D(a.channels \div 4, 1, 0, conv1_weights, self, st)
      b1 == BatchNorm(a.channels \div 4, self, c1.st)
      \* _conv3x3(channels // 4, 1, channels // 4, params=self.conv2_weights)
      c2 == conv3x3(3, {"params"}, 1, 0, conv2_weights, self, b1.st)
      b2 == BatchNorm(a.channels \div 4, self, c2.st)
      c3 == QConv2D(a.channels, 1, 0, conv3_weights, self, b2.st)
      b3 == BatchNorm(a.channels, self, c3.st)
      d1 == QConv2D(a.channels, 1, a.in_channels, downsample_conv_weights, self, b3.st)
      d2 == BatchNorm(a.channels, self, d1.st)
      err == FirstError(IF a.downsample THEN <<c1, b1, c2, b2, c3, b3, d1, d2>>
                                        ELSE <<c1, b1, c2, b2, c3, b3>>)
  IN IF err # "ok" THEN Raise(err, st)
     ELSE [status |-> "ok",
           block |-> MkBlock("BottleneckV1Enas", a, partner, None,
                             <<c1.layer, b1.layer, Activation, c2.layer, b2.layer,
                               Activation, c3.layer, b3.layer>>,
                             IF a.downsample THEN <<d1.layer, d2.layer>> ELSE <<>>,
                             c1.layer.params, c2.layer.params, c3.layer.params,
                             IF a.downsample THEN d1.layer.params ELSE None),
           st |-> IF a.downsample THEN d2.st ELSE b3.st]

\* BasicBlockV2Enas.__init__ followed by _init (init=True); a block built
\* with a partner keeps the partner's weights in its own *_weights attributes
BasicBlockV2Enas(a, partner, self, heap, st) ==
  LET bn == BatchNorm(a.in_channels, self, st)
      w == PartnerAttrWeights(a, partner, heap)
      c1 == QConv2D(a.channels, 3, a.in_channels, w.conv1, self, bn.st)
      b1 == BatchNorm(a.channels, self, c1.st)
      c2 == QConv2D(a.channels, 3, a.channels, w.conv2, self, b1.st)
      d1 == QConv2D(a.channels, 1, a.in_channels, w.ds, self, c2.st)
      err == FirstError(IF a.downsample THEN <<c1, b1, c2, d1>> ELSE <<c1, b1, c2>>)
  IN IF w.error # "ok" THEN Raise(w.error, st)
     ELSE IF err # "ok" THEN Raise(err, st)
     ELSE [status |-> "ok",
           block |-> MkBlock("BasicBlockV2Enas", a, partner, bn.layer.params,
                             <<c1.layer, b1.layer, c2.layer>>,
                             IF a.downsample THEN <<d1.layer>> ELSE <<>>,
                             IF partner # None THEN w.conv1 ELSE c1.layer.params,
                             IF partner # None THEN w.conv2 ELSE c2.layer.params,
                             Unset,
                             IF ~a.downsample THEN Unset
                             ELSE IF partner # None THEN w.ds ELSE d1.layer.params),
           st |-> IF a.downsample THEN d1.st ELSE c2.st]

\* BottleneckV2Enas.__init__ (body holds bn1, conv1, bn2, conv2, bn3, conv3)
BottleneckV2Enas(a, partner, self, heap, st) ==
  LET conv1_weights == IF partner # None THEN heap[partner].conv1_weights ELSE None
      conv2_weights == IF partner # None THEN heap[partner].conv2_weights ELSE None
      conv3_weights == IF partner # None THEN heap[partner].conv3_weights ELSE None
      downsample_conv_weights ==
        IF partner # None /\ a.downsample
          THEN heap[partner].downsample_conv_weights ELSE None
      \* the attribute the downsample convolution is built from: never assigned
      downsample_weights == Unset
      b1 == BatchNorm(a.in_channels, self, st)
      c1 == QConv2D(a.channels \div 4, 1, 0, conv1_weights, self, b1.st)
      b2 == BatchNorm(a.channels \div 4, self, c1.st)
      \* _conv3x3(channels // 4, stride, channels // 4, bits=self.bits, params=...)
      c2 == conv3x3(3, {"bits", "params"}, a.stride, 0, conv2_weights, self, b2.st)
      b3 == BatchNorm(a.channels \div 4, self, c2.st)
      c3 == QConv2D(a.channels, 1, 0, conv3_weights, self, b3.st)
      d1 == QConv2D(a.channels, 1, a.in_channels, downsample_weights, self, c3.st)
      err == FirstError(IF a.downsample THEN <<b1, c1, b2, c2, b3, c3, d1>>
                                        ELSE <<b1, c1, b2, c2, b3, c3>>)
  IN IF err # "ok" THEN Raise(err, st)
     ELSE [status |-> "ok",
           block |-> MkBlock("BottleneckV2Enas", a, partner, None,
                             <<b1.layer, c1.layer, b2.layer, c2.layer, b3.layer, c3.layer>>,
                             IF a.downsample THEN <<d1.layer>> ELSE <<>>,
                             c1.layer.params, c2.layer.params, c3.layer.params,
                             IF a.downsample THEN d1.layer.params ELSE None),
           st |-> IF a.downsample THEN d1.st ELSE c3.st]

\* block(channels, stride, downsample, in_channels=..., bits=..., grad_cancel=...,
\*       parameter_sharing_partner=partner) for the block class named variant
NewBlock(variant, a, partner, self, heap, st) ==
  CASE variant = "BasicBlockV1Enas" -> BasicBlockV1Enas(a, partner, self, heap, st)
    [] variant = "BottleneckV1Enas" -> BottleneckV1Enas(a, partner, self, heap, st)
    [] variant = "BasicBlockV2Enas" -> BasicBlockV2Enas(a, partner, self, heap, st)
    [] variant = "BottleneckV2Enas" -> BottleneckV2Enas(a, partner, self, heap, st)

\* -------------------------------------------------- constructor inputs
SmallChannels == {4, 8}
Strides == {1, 2}

BlockArgs(chs, strides, ins) ==
  [channels : chs, stride : strides, downsample : BOOLEAN, in_channels : ins,
   bits : BitsSpace, grad_cancel : {DefaultGradCancel}]

\* every valid BlockSpec of the bounded space
AllArgs == BlockArgs(SmallChannels, Strides, {4})
\* the BlockSpecs used when studying sharing chains and weight updates
ShareArgs == BlockArgs({4}, {1}, {4})

\* enas_unit builds the partner with the same block class
PartnersOf(variant) == {i \in 1..Len(blocks) : blocks[i].variant = variant}

\* ------------------------------------------------------------- forward
\* the tensor a layer returns, as the term that computes it: the operation,
\* the value of the parameter it reads, the bit width it was configured with
\* and the terms of its inputs
Term(op, weight, bits, args) ==
  [op |-> op, weight |-> weight, bits |-> bits, args |-> args]
Input(x) == Term("input", x, 0, <<>>)

\* one layer applied to x; the convolutions of a block were created under
\* set_binary_layer_config(bits = self.bits, bits_a = self.bits)
ApplyLayer(layer, bits, x, st) ==
  Term(layer.type,
       IF layer.params = None THEN None ELSE st[layer.params].value,
       IF layer.type = "qconv" THEN bits ELSE 0,
       <<x>>)

\* nn.HybridSequential: the layers applied in the order they were added
RECURSIVE Sequential(_, _, _, _)
Sequential(layers, bits, x, st) ==
  IF layers = <<>> THEN x
  ELSE Sequential(Tail(layers), bits, ApplyLayer(Head(layers), bits, x, st), st)

\* BasicBlockV1Enas.hybrid_forward
hybrid_forward_V1(self, x, st) ==
  LET residual == IF self.downsample # <<>>
                    THEN Sequential(self.downsample, self.bits, x, st)
                    ELSE x
      out == Sequential(self.body, self.bits, x, st)
  IN Term("add", None, 0, <<residual, out>>)

\* BasicBlockV2Enas.hybrid_forward
hybrid_forward_V2(self, x, st) ==
  LET bn == ApplyLayer([type |-> "bn", params |-> self.bn], self.bits, x, st)
      residual == IF self.downsample # <<>>
                    THEN Sequential(self.downsample, self.bits, bn, st)
                    ELSE x
      out == Sequential(self.body, self.bits, bn, st)
  IN Term("add", None, 0, <<residual, out>>)

\* the forward pass of a basic block
hybrid_forward(self, x, st) ==
  IF self.variant = "BasicBlockV1Enas" THEN hybrid_forward_V1(self, x, st)
  ELSE hybrid_forward_V2(self, x, st)

\* the input tensors of the forward study
ForwardInputs == {Input(0), Input(1)}

\* ------------------------------------------------------------- latency
\* python's numbers as exact fractions in lowest terms; every value the
\* latency function computes (small integers over powers of two) is
\* represented exactly both by a double and by such a fraction
RECURSIVE GCD(_, _)
GCD(a, b) == IF b = 0 THEN a ELSE GCD(b, a % b)

Rational(n, d) == LET g == GCD(n, d) IN [num |-> n \div g, den |-> d \div g]
RAdd(x, y) == Rational(x.num * y.den + y.num * x.den, x.den * y.den)
RMul(x, y) == Rational(x.num * y.num, x.den * y.den)
RLess(x, y) == x.num * y.den < y.num * x.den

\* the formula as python 2 evaluates it without "from __future__ import
\* division": self.bits / 32 is the floor division
latency_function_FloorDivision(self, measured_forward_latency) ==
  IF self.bits = 32 THEN Rational(3, 1)
  ELSE RMul(Rational(3, 1),
            RAdd(Rational(1, 4), RMul(Rational(3, 4), Rational(self.bits \div 32, 1))))

\* an estimator that prefers the measurement when one is given
latency_function_Measured(self, measured_forward_latency) ==
  IF measured_forward_latency > 0 THEN Rational(measured_forward_latency, 1)
  ELSE IF self.bits = 32 THEN Rational(3, 1)
  ELSE RMul(Rational(3, 1),
            RAdd(Rational(1, 4), RMul(Rational(3, 4), Rational(self.bits, 32))))

\* latency_function(self, measured_forward_latency), the same in the four
\* block classes: 3 if self.bits == 32 else 3 * (0.25 + 0.75 * (self.bits / 32))
latency_function(self, measured_forward_latency) ==
  IF self.bits = 32 THEN Rational(3, 1)
  ELSE RMul(Rational(3, 1),
            RAdd(Rational(1, 4), RMul(Rational(3, 4), Rational(self.bits, 32))))

\* the bit widths the latency study constructs blocks with
BitWidths == 1..32
\* one BlockSpec per bit width
RangedArgs ==
  [channels : {4}, stride : {1}, downsample : {FALSE}, in_channels : {4},
   bits : BitWidths, grad_cancel : {DefaultGradCancel}]
\* BlockSpecs of two shapes that differ in channels, stride and downsample
MeasureArgs ==
  {a \in AllArgs : /\ a.downsample = (a.channels # a.in_channels)
                   /\ a.stride = IF a.downsample THEN 2 ELSE 1}
\* values of the measured_forward_latency argument
MeasuredLatencies == {0, 5}

\* ------------------------------------------------------------ networks
\* default of the classes keyword of the assemblers
DefaultClasses == 1000

NoNet == [class |-> "none"]

\* an element of ResNetEnas.features (or the head): its layer class, the scale
\* flag of a batchnorm, the heap id of a residual block, the units of a Dense
Element(kind, scale, block, units) ==
  [kind |-> kind, scale |-> scale, block |-> block, units |-> units]

InputBatchNorm == Element("BatchNorm", FALSE, None, 0)
HeadBatchNorm == Element("BatchNorm", TRUE, None, 0)
InitialLayers(channels0) == Element("initial_layers", FALSE, None, channels0)
Relu == Element("Activation", FALSE, None, 0)
GlobalAvgPool2D == Element("GlobalAvgPool2D", FALSE, None, 0)
Flatten == Element("Flatten", FALSE, None, 0)
Dense(classes, in_units) == Element("Dense", FALSE, None, classes)
BlockElement(id) == Element("block", FALSE, id, 0)

\* variant: every first block downsamples only when it strides
FirstBlockArgs_StrideOnly(channels, stride, in_channels, grad_cancel) ==
  [channels |-> channels, stride |-> stride, downsample |-> (stride > 1),
   in_channels |-> in_channels, bits |-> 1, grad_cancel |-> grad_cancel]

\* variant: the first block is requested without the network's grad_cancel
FirstBlockArgs_DefaultGradCancel(channels, stride, in_channels, grad_cancel) ==
  [channels |-> channels, stride |-> stride, downsample |-> (channels # in_channels),
   in_channels |-> in_channels, bits |-> 1, grad_cancel |-> DefaultGradCancel]

\* block(channels, stride, channels != in_channels, in_channels=in_channels,
\*       prefix='', grad_cancel=self.grad_cancel), bits left at its default 1
FirstBlockArgs(channels, stride, in_channels, grad_cancel) ==
  [channels |-> channels, stride |-> stride, downsample |-> (channels # in_channels),
   in_channels |-> in_channels, bits |-> 1, grad_cancel |-> grad_cancel]

\* variant: the later blocks keep the stage's stride and input channels
RestBlockArgs_AsFirst(channels, stride, in_channels) ==
  [channels |-> channels, stride |-> stride, downsample |-> FALSE,
   in_channels |-> in_channels, bits |-> 1, grad_cancel |-> DefaultGradCancel]

\* block(channels, 1, False, in_channels=channels, prefix=''): grad_cancel and
\* bits are left at their defaults; the stage's stride and in_channels are unused
RestBlockArgs(channels, stride, in_channels) ==
  [channels |-> channels, stride |-> 1, downsample |-> FALSE,
   in_channels |-> channels, bits |-> 1, grad_cancel |-> DefaultGradCancel]

\* the state an assembler threads through its block(...) calls
StartBuild(heap, st) ==
  [status |-> "ok", layers |-> <<>>, heap |-> heap, st |-> st, requests |-> <<>>]

\* one block(...) call of _make_layer: the new block is appended to the layers
\* built so far; after an exception nothing more is executed
\* (the state built so far is bound once, as a value)
Request(block, a, stage_index, built) ==
  LET call(acc) ==
        IF acc.status # "ok" THEN acc
        ELSE LET self == Len(acc.heap) + 1
                 made(r) ==
                   [status |-> r.status,
                    layers |-> IF r.status = "ok"
                                 THEN Append(acc.layers, BlockElement(self))
                                 ELSE acc.layers,
                    heap |-> IF r.status = "ok" THEN Append(acc.heap, r.block)
                                                ELSE acc.heap,
                    st |-> IF r.status = "ok" THEN r.st ELSE acc.st,
                    requests |-> Append(acc.requests,
                                        [stage_index |-> stage_index, args |-> a,
                                         status |-> r.status])]
             IN CHOOSE out \in {made(r) : r \in {NewBlock(block, a, None, self,
                                                          acc.heap, acc.st)}} : TRUE
  IN CHOOSE out \in {call(acc) : acc \in {built}} : TRUE

\* for _ in range(n): layers.append(block(...))
RECURSIVE RepeatRequest(_, _, _, _, _)
RepeatRequest(block, a, stage_index, n, acc) ==
  IF n <= 0 THEN acc
  ELSE CHOOSE out \in
         {RepeatRequest(block, a, stage_index, n - 1, next) :
            next \in {Request(block, a, stage_index, acc)}} : TRUE

\* ResNetEnas._make_layer
make_layer(block, num_layers, channels, stride, stage_index, in_channels, grad_cancel, acc) ==
  CHOOSE out \in
    {RepeatRequest(block, RestBlockArgs(channels, stride, in_channels), stage_index,
                   num_layers - 1, first) :
       first \in {Request(block,
                          FirstBlockArgs(channels, stride, in_channels, grad_cancel),
                          stage_index, acc)}} : TRUE

\* the stage loop of ResNetV1Enas.__init__, from python index i on:
\* in_channels = channels[i], taken from the schedule at every stage
RECURSIVE StagesV1(_, _, _, _, _, _)
StagesV1(block, layers, channels, i, grad_cancel, acc) ==
  IF i >= Len(layers) THEN acc
  ELSE CHOOSE out \in
         {StagesV1(block, layers, channels, i + 1, grad_cancel, stage) :
            stage \in {make_layer(block, layers[i + 1], channels[i + 2],
                                  IF i = 0 THEN 1 ELSE 2, i + 1, channels[i + 1],
                                  grad_cancel, acc)}} : TRUE

\* the stage loop of ResNetV2Enas.__init__, from python index i on:
\* in_channels is a local set to channels[0] and then to each stage's channels
RECURSIVE StagesV2(_, _, _, _, _, _, _)
StagesV2(block, layers, channels, i, in_channels, grad_cancel, acc) ==
  IF i >= Len(layers) THEN acc
  ELSE CHOOSE out \in
         {StagesV2(block, layers, channels, i + 1, channels[i + 2], grad_cancel, stage) :
            stage \in {make_layer(block, layers[i + 1], channels[i + 2],
                                  IF i = 0 THEN 1 ELSE 2, i + 1, in_channels,
                                  grad_cancel, acc)}} : TRUE

\* the features list ResNetV1Enas.__init__ builds around the stage blocks
FeaturesV1(channels, stageBlocks) ==
  <<InputBatchNorm, InitialLayers(channels[1]), HeadBatchNorm>>
    \o stageBlocks \o <<Relu, GlobalAvgPool2D, Flatten>>

\* variant: the extra batchnorm directly follows the stem, as in V1
FeaturesV2_BnAfterStem(channels, stageBlocks) ==
  <<InputBatchNorm, InitialLayers(channels[1]), HeadBatchNorm>>
    \o stageBlocks \o <<Relu, GlobalAvgPool2D, Flatten>>

\* the features list ResNetV2Enas.__init__ builds around the stage blocks
FeaturesV2(channels, stageBlocks) ==
  <<InputBatchNorm, InitialLayers(channels[1])>>
    \o stageBlocks \o <<HeadBatchNorm, Relu, GlobalAvgPool2D, Flatten>>

NetClasses == {"ResNetV1Enas", "ResNetV2Enas"}

\* a check that only asks for enough channel entries
LengthsAgree_AtMost(layers, channels) == Len(layers) <= Len(channels) - 1

\* assert len(layers) == len(channels) - 1
LengthsAgree(layers, channels) == Len(layers) = Len(channels) - 1

\* ResNetV1Enas.__init__ / ResNetV2Enas.__init__ (with ResNetEnas.__init__):
\* net_class(block, layers, channels, grad_cancel=grad_cancel)
ResNetEnas(net_class, block, layers, channels, grad_cancel, heap, st) ==
  LET failed(error, reqs) ==
        [status |-> error, net |-> NoNet, heap |-> heap, st |-> st, requests |-> reqs]
      finish(built) ==
        IF built.status # "ok" THEN failed(built.status, built.requests)
        ELSE [status |-> "ok",
              net |-> [class |-> net_class,
                       features |-> IF net_class = "ResNetV1Enas"
                                      THEN FeaturesV1(channels, built.layers)
                                      ELSE FeaturesV2(channels, built.layers),
                       output |-> Dense(DefaultClasses, channels[Len(channels)]),
                       grad_cancel |-> grad_cancel],
              heap |-> built.heap, st |-> built.st, requests |-> built.requests]
  IN IF ~LengthsAgree(layers, channels) THEN failed("AssertionError", <<>>)
     ELSE CHOOSE out \in
            {finish(built) : built \in
               {IF net_class = "ResNetV1Enas"
                  THEN StagesV1(block, layers, channels, 0, grad_cancel,
                                StartBuild(heap, st))
                  ELSE StagesV2(block, layers, channels, 0, channels[1], grad_cancel,
                                StartBuild(heap, st))}} : TRUE

\* a flattened view that starts with the head
enas_sequential_HeadFirst(n) == <<n.output>> \o n.features

\* ResNetEnas.enas_sequential: the features followed by the head
enas_sequential(n) == Append(n.features, n.output)

\* ------------------------------------------------------------ registry
SupportedDepths == {18, 34, 50, 101, 152}

\* variant: the schedule of depth 34 lost its last stage
resnet_spec_Short(num_layers) ==
  CASE num_layers = 18 ->
         [block_type |-> "basic_block", layers |-> <<2, 2, 2, 2>>,
          channels |-> <<64, 64, 128, 256, 512>>]
    [] num_layers = 34 ->
         [block_type |-> "basic_block", layers |-> <<3, 4, 6>>,
          channels |-> <<64, 64, 128, 256, 512>>]
    [] num_layers = 50 ->
         [block_type |-> "bottle_neck", layers |-> <<3, 4, 6, 3>>,
          channels |-> <<64, 256, 512, 1024, 2048>>]
    [] num_layers = 101 ->
         [block_type |-> "bottle_neck", layers |-> <<3, 4, 23, 3>>,
          channels |-> <<64, 256, 512, 1024, 2048>>]
    [] num_layers = 152 ->
         [block_type |-> "bottle_neck", layers |-> <<3, 8, 36, 3>>,
          channels |-> <<64, 256, 512, 1024, 2048>>]

\* resnet_spec[num_layers]
resnet_spec(num_layers) ==
  CASE num_layers = 18 ->
         [block_type |-> "basic_block", layers |-> <<2, 2, 2, 2>>,
          channels |-> <<64, 64, 128, 256, 512>>]
    [] num_layers = 34 ->
         [block_type |-> "basic_block", layers |-> <<3, 4, 6, 3>>,
          channels |-> <<64, 64, 128, 256, 512>>]
    [] num_layers = 50 ->
         [block_type |-> "bottle_neck", layers |-> <<3, 4, 6, 3>>,
          channels |-> <<64, 256, 512, 1024, 2048>>]
    [] num_layers = 101 ->
         [block_type |-> "bottle_neck", layers |-> <<3, 4, 23, 3>>,
          channels |-> <<64, 256, 512, 1024, 2048>>]
    [] num_layers = 152 ->
         [block_type |-> "bottle_neck", layers |-> <<3, 8, 36, 3>>,
          channels |-> <<64, 256, 512, 1024, 2048>>]

\* resnet_net_versions[version - 1]
resnet_net_versions(version) ==
  IF version = 1 THEN "ResNetV1Enas" ELSE "ResNetV2Enas"

\* resnet_block_versions with the two dictionaries in the other order
resnet_block_versions_Crossed(version, block_type) ==
  CASE version = 2 /\ block_type = "basic_block" -> "BasicBlockV1Enas"
    [] version = 2 /\ block_type = "bottle_neck" -> "BottleneckV1Enas"
    [] version = 1 /\ block_type = "basic_block" -> "BasicBlockV2Enas"
    [] version = 1 /\ block_type = "bottle_neck" -> "BottleneckV2Enas"

\* resnet_block_versions[version - 1][block_type]
resnet_block_versions(version, block_type) ==
  CASE version = 1 /\ block_type = "basic_block" -> "BasicBlockV1Enas"
    [] version = 1 /\ block_type = "bottle_neck" -> "BottleneckV1Enas"
    [] version = 2 /\ block_type = "basic_block" -> "BasicBlockV2Enas"
    [] version = 2 /\ block_type = "bottle_neck" -> "BottleneckV2Enas"

\* the registry without its two assert statements: the failed lookups raise
CheckConfiguration_NoAsserts(version, num_layers) ==
  IF num_layers \notin SupportedDepths THEN "KeyError"
  ELSE IF ~(version >= 1 /\ version <= 2) THEN "IndexError"
  ELSE "ok"

\* the two assert statements of get_resnet_enas, in their order
CheckConfiguration(version, num_layers) ==
  IF num_layers \notin SupportedDepths THEN "AssertionError"
  ELSE IF ~(version >= 1 /\ version <= 2) THEN "AssertionError"
  ELSE "ok"

\* get_resnet_enas(version, num_layers, pretrained, grad_cancel=grad_cancel)
get_resnet_enas(version, num_layers, pretrained, grad_cancel, heap, st) ==
  LET failed(error) ==
        [status |-> error, net |-> NoNet, heap |-> heap, st |-> st, requests |-> <<>>,
         class |-> "none", block |-> "none", layers |-> <<>>, channels |-> <<>>]
      checked == CheckConfiguration(version, num_layers)
  IN IF checked # "ok" THEN failed(checked)
     ELSE LET spec == resnet_spec(num_layers)
              resnet_class == resnet_net_versions(version)
              block_class == resnet_block_versions(version, spec.block_type)
              found == [class |-> resnet_class, block |-> block_class,
                        layers |-> spec.layers, channels |-> spec.channels]
              return(r) ==
                IF r.status = "ok" /\ pretrained
                  THEN [status |-> "ValueError", net |-> NoNet, heap |-> heap,
                        st |-> st, requests |-> r.requests] @@ found
                  ELSE r @@ found
          IN CHOOSE out \in
               {return(r) : r \in {ResNetEnas(resnet_class, block_class, spec.layers,
                                              spec.channels, grad_cancel, heap, st)}} : TRUE

\* ----------------------------------------------------- assembler inputs
\* the sequences over S of length lo..hi
SeqsOf(S, lo, hi) == UNION {[1..n -> S] : n \in lo..hi}

LayerLists == SeqsOf(1..MaxStageLayers, 1, MaxStages)
ChannelLists == SeqsOf(SmallChannels, 2, MaxStages + 1)
GradCancels == {DefaultGradCancel, 2}
Versions == 0..3
Depths == SupportedDepths \cup {20}

\* ------------------------------------------------- evaluation: prepare_net
\* A parameter name is the sequence of its characters, so that python's
\* substring test can be computed; a ParameterDict is the sequence of its
\* entries [name, shape, data] in key order, data being the flattened array.
qconv == <<"q", "c", "o", "n", "v">>

\* sub in name
Contains(name, sub) ==
  \E k \in 1..(Len(name) - Len(sub) + 1) : SubSeq(name, k, k + Len(sub) - 1) = sub

\* reduce(mul, param_data.shape, 1)
RECURSIVE NumParams(_)
NumParams(shape) == IF shape = <<>> THEN 1 ELSE Head(shape) * NumParams(Tail(shape))

\* param_data.det_sign(): -1 for a negative entry, +1 otherwise
det_sign(data) == [k \in 1..Len(data) |-> IF data[k] < 0 THEN -1 ELSE 1]

\* a test that only looks at the start of the name
IsBinaryParam_Prefix(param_name) ==
  Len(param_name) >= Len(qconv) /\ SubSeq(param_name, 1, Len(qconv)) = qconv

\* "qconv" in param_name
IsBinaryParam(param_name) == Contains(param_name, qconv)

\* the locals of prepare_net before its loop
PrepareStart(all_params) ==
  [params |-> all_params, fp_weights |-> 0, binary_weights |-> 0,
   binary_params |-> <<>>, full_precision_params |-> <<>>]

\* one iteration of the loop of prepare_net, on the k-th key
PrepareParam(acc, k) ==
  LET param == acc.params[k]
      num_params == NumParams(param.shape)
  IN IF IsBinaryParam(param.name)
       THEN [acc EXCEPT !.params[k].data = det_sign(param.data),
                        !.binary_weights = @ + num_params,
                        !.binary_params = Append(@, param.name)]
       ELSE [acc EXCEPT !.fp_weights = @ + num_params,
                        !.full_precision_params = Append(@, param.name)]

RECURSIVE PrepareLoop(_, _)
PrepareLoop(acc, k) ==
  IF k > Len(acc.params) THEN acc
  ELSE CHOOSE out \in {PrepareLoop(next, k + 1) : next \in {PrepareParam(acc, k)}} : TRUE

\* prepare_net(opt, net): the parameters it leaves in the network and the
\* quantities it reports
prepare_net(all_params) ==
  LET done == PrepareLoop(PrepareStart(all_params), 1)
  IN done @@ [bits_required |-> done.binary_weights + done.fp_weights * 32]

\* the parameters of the networks given to the evaluation script
ParamNames ==
  { <<"q", "c", "o", "n", "v", "0", "_", "w">>,
    <<"l", "1", "_", "q", "c", "o", "n", "v", "_", "w">>,
    <<"c", "o", "n", "v", "0", "_", "w">>,
    <<"q", "c", "o", "n", "_", "v">>,
    <<"b", "n", "0", "_", "g">> }
ParamEntries == {-2, 0, 3}
ParamShapes == {<<1>>, <<1, 2>>}
ParamArrays(shape) == [1..NumParams(shape) -> ParamEntries]
Params ==
  UNION {[name : {n}, shape : {sh}, data : ParamArrays(sh)] :
           n \in ParamNames, sh \in ParamShapes}
\* the dictionaries of 1..MaxParams parameters with pairwise different names
ParamDicts ==
  {d \in SeqsOf(Params, 1, MaxParams) :
     \A i, j \in 1..Len(d) : i # j => d[i].name # d[j].name}

\* ------------------------------------------- evaluation: the script's loop
\* val_samples = 50000
val_samples == 50000

\* A batch is the predictions of the network next to the labels, as a
\* sequence of runs: n consecutive samples with the same prediction and label.
Run(pred, truth, n) == [pred |-> pred, truth |-> truth, n |-> n]

RECURSIVE RunsLen(_)
RunsLen(runs) == IF runs = <<>> THEN 0 ELSE Head(runs).n + RunsLen(Tail(runs))

\* the first k samples
RECURSIVE TakeRuns(_, _)
TakeRuns(runs, k) ==
  IF k <= 0 \/ runs = <<>> THEN <<>>
  ELSE IF Head(runs).n >= k THEN <<[Head(runs) EXCEPT !.n = k]>>
  ELSE <<Head(runs)>> \o TakeRuns(Tail(runs), k - Head(runs).n)

\* a[:-1 * padding] for padding > 0: all but the last padding samples
DropLast(runs, padding) ==
  LET keep == RunsLen(runs) - padding
  IN TakeRuns(runs, IF keep > 0 THEN keep ELSE 0)

\* np.sum(predictions == ground_truth)
RECURSIVE SumEqual(_)
SumEqual(runs) ==
  IF runs = <<>> THEN 0
  ELSE (IF Head(runs).pred = Head(runs).truth THEN Head(runs).n ELSE 0)
         + SumEqual(Tail(runs))

\* np.sum(predictions != ground_truth)
RECURSIVE SumDiffer(_)
SumDiffer(runs) ==
  IF runs = <<>> THEN 0
  ELSE (IF Head(runs).pred # Head(runs).truth THEN Head(runs).n ELSE 0)
         + SumDiffer(Tail(runs))

\* a padding that forgets the wrong predictions counted so far
Padding_CorrectOnly(opt, num_correct, num_wrong) ==
  IF opt.dataset = "imagenet" /\ num_correct + opt.batch_size >= 50000
    THEN (num_correct + opt.batch_size) - 50000
    ELSE 0

\* the padding of the batch about to be counted (fix validation "padding")
Padding(opt, num_correct, num_wrong) ==
  IF opt.dataset = "imagenet" /\ num_correct + num_wrong + opt.batch_size >= 50000
    THEN (num_correct + num_wrong + opt.batch_size) - 50000
    ELSE 0

\* a forward pass in training mode: the statistics of the layers that are
\* not convolutions move
net_call_TrainMode(params) ==
  [k \in 1..Len(params) |->
     IF IsBinaryParam(params[k].name) THEN params[k]
     ELSE [params[k] EXCEPT !.data = [j \in 1..Len(@) |-> @[j] + 1]]]

\* result = net(data): a forward pass outside autograd.record(); the
\* parameters after it are the parameters before it
net_call(params) == params

\* the body of the evaluation loop for one batch
EvaluateStep(e, batch) ==
  LET padding == Padding(e.opt, e.num_correct, e.num_wrong)
      counted == IF padding > 0 THEN DropLast(batch, padding) ELSE batch
  IN [e EXCEPT !.i = @ + 1,
               !.padding = padding,
               !.counted = RunsLen(counted),
               !.full = @ /\ RunsLen(batch) = e.opt.batch_size,
               !.params = net_call(@),
               !.num_correct = @ + SumEqual(counted),
               !.num_wrong = @ + SumDiffer(counted)]

\* the options of a run
BatchSizes == {20000, 25000, 30000, 60000}
LimitEvals == {-1, 0, 2}
Datasets == {"imagenet", "cifar10"}
Modes == {"symbolic", "gluon"}
Options ==
  [batch_size : BatchSizes, limit_eval : LimitEvals, dataset : Datasets, mode : Modes]
NoOptions == [batch_size |-> 0, limit_eval |-> -1, dataset |-> "none", mode |-> "none"]

\* the batches of n samples the iterator may yield
Batches(n) ==
  { <<Run(1, 1, n)>>, <<Run(0, 1, n)>>,
    <<Run(1, 1, n \div 2), Run(0, 1, n - n \div 2)>>,
    <<Run(0, 1, n \div 2), Run(1, 1, n - n \div 2)>> }

\* the networks the script is run on
EvalDicts ==
  { << [name |-> <<"q", "c", "o", "n", "v", "0", "_", "w">>, shape |-> <<1, 2>>,
        data |-> <<-2, 3>>],
       [name |-> <<"b", "n", "0", "_", "g">>, shape |-> <<1>>, data |-> <<3>>] >>,
    << [name |-> <<"c", "o", "n", "v", "0", "_", "w">>, shape |-> <<1>>,
        data |-> <<-2>>] >> }

NoReport ==
  [fp_weights |-> 0, binary_weights |-> 0, bits_required |-> 0,
   binary_params |-> <<>>, full_precision_params |-> <<>>]

\* what prepare_net reports
Report(r) ==
  [fp_weights |-> r.fp_weights, binary_weights |-> r.binary_weights,
   bits_required |-> r.bits_required, binary_params |-> r.binary_params,
   full_precision_params |-> r.full_precision_params]

\* no run of the script
NotEvaluating ==
  [pc |-> "none", opt |-> NoOptions, num_batches |-> 0, short_last |-> FALSE,
   loaded |-> <<>>, params |-> <<>>, params1 |-> <<>>, report |-> NoReport,
   i |-> 0, num_correct |-> 0, num_wrong |-> 0, padding |-> 0, counted |-> 0,
   full |-> TRUE, error |-> "none"]

\* ---------------------------------------------------- training: train_enas
\* the networks main() passes, or has passed, to train_net_enas
TrainNets == {"meliusnet22_enas", "meliusnet59_enas"}

\* the names the function reads that no statement of the module binds; only
\* the star import of autogluon.contrib.enas could bring them in
StarNames == {"mnet_enas", "nn"}

\* what the star import may have bound
ModuleGlobals == SUBSET StarNames

\* the object a module-level name mnet_enas would refer to: bound at import
\* time, it is not the network built later and passed as net
mnet_enas == "mnet_enas"

\* the steps of train_net_enas up to the return of scheduler.run
TrainingSteps == <<"initialize", "forward", "evaluate_latency", "scheduler.run">>

\* no run of train_net_enas
NotTraining ==
  [pc |-> "none", net |-> "none", epochs |-> 0, globals |-> {}, done |-> <<>>,
   symbolic |-> "none", pruned |-> "none", exported |-> FALSE, error |-> "none"]

\* ------------------------------------------------------------ actions
Init ==
  /\ blocks = <<>>
  /\ storage = <<>>
  /\ last = [op |-> "none"]
  /\ nCalls = 0
  /\ nUpdates = 0
  /\ net = NoNet
  /\ requests = <<>>
  /\ ev = NotEvaluating
  /\ train = NotTraining

\* one block constructor call; a raised exception leaves the heap as it was
Construct(Classes, ArgSet, maxCalls) ==
  /\ nCalls < maxCalls
  /\ \E variant \in Classes, a \in ArgSet :
       \E partner \in {None} \cup PartnersOf(variant) :
         LET self == Len(blocks) + 1
             r == NewBlock(variant, a, partner, self, blocks, storage)
         IN /\ blocks' = IF r.status = "ok" THEN Append(blocks, r.block) ELSE blocks
            /\ storage' = IF r.status = "ok" THEN r.st ELSE storage
            /\ last' = [op |-> "construct", variant |-> variant, args |-> a,
                        partner |-> partner, status |-> r.status,
                        result |-> IF r.status = "ok" THEN self ELSE None]
  /\ nCalls' = nCalls + 1
  /\ UNCHANGED <<nUpdates, net, requests, ev, train>>

\* the storages a block's layers reference
LayerParams(b) ==
  ({b.body[i].params : i \in 1..Len(b.body)}
     \cup {b.downsample[i].params : i \in 1..Len(b.downsample)}
     \cup {b.bn}) \ {None}

\* the trainer writes value v into the parameter a layer of block b references
UpdateWeight ==
  /\ nUpdates < MaxUpdates
  /\ \E b \in 1..Len(blocks) : \E p \in LayerParams(blocks[b]) :
       \E v \in WeightValues \ {storage[p].value} :
         /\ storage' = [storage EXCEPT ![p].value = v]
         /\ last' = [op |-> "update", params |-> p]
  /\ nUpdates' = nUpdates + 1
  /\ UNCHANGED <<blocks, nCalls, net, requests, ev, train>>

\* a direct call of an assembler class; an exception returns no network
\* and leaves nothing reachable on the heap
Assemble ==
  /\ net = NoNet /\ last.op = "none"
  /\ \E net_class \in NetClasses, block \in Variants, layers \in LayerLists,
        channels \in ChannelLists, grad_cancel \in GradCancels :
       \E r \in {ResNetEnas(net_class, block, layers, channels, grad_cancel,
                             blocks, storage)} :
          /\ net' = r.net
          /\ blocks' = r.heap
          /\ storage' = r.st
          /\ requests' = r.requests
          /\ last' = [op |-> "assemble", class |-> net_class, block |-> block,
                      layers |-> layers, channels |-> channels,
                      grad_cancel |-> grad_cancel, status |-> r.status]
  /\ UNCHANGED <<nCalls, nUpdates, ev, train>>

\* a call of the registry
GetResnetEnas ==
  /\ net = NoNet /\ last.op = "none"
  /\ \E version \in Versions, num_layers \in Depths, pretrained \in BOOLEAN,
        grad_cancel \in GradCancels :
       \E r \in {get_resnet_enas(version, num_layers, pretrained, grad_cancel,
                                  blocks, storage)} :
          /\ net' = r.net
          /\ blocks' = r.heap
          /\ storage' = r.st
          /\ requests' = r.requests
          /\ last' = [op |-> "get_resnet_enas", version |-> version,
                      num_layers |-> num_layers, pretrained |-> pretrained,
                      class |-> r.class, block |-> r.block, layers |-> r.layers, channels |-> r.channels,
                      grad_cancel |-> grad_cancel, status |-> r.status]
  /\ UNCHANGED <<nCalls, nUpdates, ev, train>>

\* the block classes whose constructor can return a block
BasicVariants == {"BasicBlockV1Enas", "BasicBlockV2Enas"}

ConstructAny == Construct(Variants, AllArgs, MaxCalls)
ConstructShared == Construct(BasicVariants, ShareArgs, MaxShared)
ConstructAliased == Construct(BasicVariants, ShareArgs, MaxAliased)

Next == ConstructAny
Spec == Init /\ [][Next]_vars

NextShare == ConstructShared
SpecShare == Init /\ [][NextShare]_vars

NextAlias == ConstructAliased \/ UpdateWeight
SpecAlias == Init /\ [][NextAlias]_vars

\* a read of the enas_sequential property of the network: a new list is
\* filled from self.features and self.output, which are only read
EnasSequential ==
  /\ net # NoNet
  /\ \E r \in {enas_sequential(net)} :
       last' = [op |-> "enas_sequential", result |-> r]
  /\ UNCHANGED <<blocks, storage, nCalls, nUpdates, net, requests, ev, train>>

\* the scheduler asks a block for its latency estimate
LatencyFunction ==
  /\ \E b \in 1..Len(blocks), measured \in MeasuredLatencies :
       \E r \in {latency_function(blocks[b], measured)} :
         last' = [op |-> "latency_function", block |-> b, measured |-> measured,
                  result |-> r]
  /\ UNCHANGED <<blocks, storage, nCalls, nUpdates, net, requests, ev, train>>

NextNet == Assemble \/ GetResnetEnas \/ EnasSequential \/ LatencyFunction
SpecNet == Init /\ [][NextNet]_vars

ConstructRanged == Construct(Variants, RangedArgs, MaxRanged)
ConstructMeasured == Construct(Variants, MeasureArgs, MaxMeasured)

NextLatency == ConstructRanged \/ LatencyFunction
SpecLatency == Init /\ [][NextLatency]_vars

NextMeasure == ConstructMeasured \/ LatencyFunction
SpecMeasure == Init /\ [][NextMeasure]_vars

\* ------------------------------------------ actions: the evaluation script
\* a call of prepare_net on a loaded network
PrepareNet ==
  /\ ev.pc = "none"
  /\ \E d \in ParamDicts : \E r \in {prepare_net(d)} :
       ev' = [NotEvaluating EXCEPT !.pc = "prepared", !.loaded = d,
                                   !.params = r.params, !.report = Report(r)]
  /\ UNCHANGED <<blocks, storage, last, nCalls, nUpdates, net, requests, train>>

\* the script up to its loop: the options are parsed, the network is loaded
\* and prepared, params1 is copied; in symbolic mode the name os, which the
\* script never imports, is read first
StartEvaluation ==
  /\ ev.pc = "none"
  /\ \E opt \in Options, num_batches \in 0..MaxBatches, short_last \in BOOLEAN,
        d \in EvalDicts :
       IF opt.mode = "symbolic"
         THEN ev' = [NotEvaluating EXCEPT !.pc = "failed", !.opt = opt,
                                         !.error = "NameError"]
         ELSE \E r \in {prepare_net(d)} :
                ev' = [NotEvaluating EXCEPT !.pc = "loop", !.opt = opt,
                                            !.num_batches = num_batches,
                                            !.short_last = short_last,
                                            !.loaded = d, !.params = r.params,
                                            !.params1 = r.params,
                                            !.report = Report(r)]
  /\ UNCHANGED <<blocks, storage, last, nCalls, nUpdates, net, requests, train>>

\* one iteration of the loop: the iterator yields a batch of batch_size
\* samples (its last batch may be a shorter one) and the batch is counted
EvaluateBatch ==
  /\ ev.pc = "loop"
  /\ ev.i < ev.num_batches
  /\ ev.opt.limit_eval # ev.i
  /\ \E batch \in Batches(IF ev.short_last /\ ev.i = ev.num_batches - 1
                            THEN ev.opt.batch_size \div 2
                            ELSE ev.opt.batch_size) :
       \E e \in {EvaluateStep(ev, batch)} : ev' = e
  /\ UNCHANGED <<blocks, storage, last, nCalls, nUpdates, net, requests, train>>

\* the end of the script: the loop is left, params2 is compared with
\* params1, the counts and the accuracy are printed
FinishEvaluation ==
  /\ ev.pc = "loop"
  /\ ev.i >= ev.num_batches \/ ev.opt.limit_eval = ev.i
  /\ ev' = IF ev.params # ev.params1
             THEN [ev EXCEPT !.pc = "failed", !.error = "AssertionError"]
           ELSE IF ev.num_correct + ev.num_wrong = 0
             THEN [ev EXCEPT !.pc = "failed", !.error = "ZeroDivisionError"]
           ELSE [ev EXCEPT !.pc = "done"]
  /\ UNCHANGED <<blocks, storage, last, nCalls, nUpdates, net, requests, train>>

NextPrepare == PrepareNet
SpecPrepare == Init /\ [][NextPrepare]_vars

NextEvaluation == StartEvaluation \/ EvaluateBatch \/ FinishEvaluation
SpecEvaluation == Init /\ [][NextEvaluation]_vars

\* ------------------------------------------- actions: the training script
\* net.initialize()
TrainInitialize ==
  /\ train.pc = "none"
  /\ \E n \in TrainNets : \E e \in 1..MaxEpochs : \E g \in ModuleGlobals :
       train' = [NotTraining EXCEPT !.pc = "initialized", !.net = n,
                                    !.epochs = e, !.globals = g,
                                    !.done = <<"initialize">>]
  /\ UNCHANGED <<blocks, storage, last, nCalls, nUpdates, net, requests, ev>>

\* net(x)
TrainForward ==
  /\ train.pc = "initialized"
  /\ train' = [train EXCEPT !.pc = "forwarded",
                            !.done = Append(@, "forward")]
  /\ UNCHANGED <<blocks, storage, last, nCalls, nUpdates, net, requests, ev>>

\* y = net.evaluate_latency(x), and the print of the two latencies
TrainEvaluateLatency ==
  /\ train.pc = "forwarded"
  /\ train' = [train EXCEPT !.pc = "measured",
                            !.done = Append(@, "evaluate_latency")]
  /\ UNCHANGED <<blocks, storage, last, nCalls, nUpdates, net, requests, ev>>

\* scheduler = ENAS_Scheduler(net, ...); scheduler.run() returns
SchedulerRun ==
  /\ train.pc = "measured"
  /\ train' = [train EXCEPT !.pc = "returned",
                            !.done = Append(@, "scheduler.run")]
  /\ UNCHANGED <<blocks, storage, last, nCalls, nUpdates, net, requests, ev>>

\* data = mx.sym.Variable('data'); symbolic = net(data); symbolic.save(...)
SaveSymbolicGraph ==
  /\ train.pc = "returned"
  /\ train' = [train EXCEPT !.pc = "graph_saved", !.symbolic = train.net,
                            !.done = Append(@, "symbolic.save")]
  /\ UNCHANGED <<blocks, storage, last, nCalls, nUpdates, net, requests, ev>>

\* sampled_modules = mnet_enas.prune(); hybrid_seq = nn.HybridSequential();
\* ... hybrid_seq.export("sampled_model")
ExportSampledModel ==
  /\ train.pc = "graph_saved"
  /\ train' =
       IF "mnet_enas" \notin train.globals
       THEN [train EXCEPT !.pc = "failed", !.error = "NameError"]
       ELSE IF "nn" \notin train.globals
       THEN [train EXCEPT !.pc = "failed", !.error = "NameError",
                          !.pruned = mnet_enas, !.done = Append(@, "prune")]
       ELSE [train EXCEPT !.pc = "exported", !.exported = TRUE,
                          !.pruned = mnet_enas,
                          !.done = @ \o <<"prune", "export">>]
  /\ UNCHANGED <<blocks, storage, last, nCalls, nUpdates, net, requests, ev>>

NextTrain ==
  \/ TrainInitialize
  \/ TrainForward
  \/ TrainEvaluateLatency
  \/ SchedulerRun
  \/ SaveSymbolicGraph
  \/ ExportSampledModel
SpecTrain == Init /\ [][NextTrain]_vars

\* train_net_enas is straight-line code: a statement that can run does run
SpecTrainFair == SpecTrain /\ WF_vars(NextTrain)

\* ===================================================== block constructors
ConvPositions(b) == {i \in 1..Len(b.body) : b.body[i].type = "qconv"}
ConvParams(b) ==
  {b.body[i].params : i \in ConvPositions(b)}
    \cup {b.downsample[i].params : i \in {j \in 1..Len(b.downsample) : b.downsample[j].type = "qconv"}}
BnParams(b) == LayerParams(b) \ ConvParams(b)

LastIsSharedConstruct == last.op = "construct" /\ last.partner # None

PartnerCovers(p, a) == a.downsample => p.has_downsample

C2_ValidSpecConstructs ==
  (last.op = "construct" /\ last.partner = None)
    => (last.status = "ok" /\ last.result # None)

\* C3: a block built with a partner references the partner's storage in exactly
\* its convolutions, each matched to the partner's convolution at the same
\* position; its batchnorms reference storage of its own.
C3_ConvsSharedPositionally ==
  \A i \in 1..Len(blocks) :
    blocks[i].partner # None =>
      LET b == blocks[i]
          p == blocks[b.partner]
      IN /\ \A k \in ConvPositions(b) : b.body[k].params = p.body[k].params
         /\ b.downsample # <<>> => b.downsample[1].params = p.downsample[1].params
         /\ \A k \in ConvPositions(b), j \in ConvPositions(p) :
              b.body[k].params = p.body[j].params => k = j
         /\ \A k \in ConvPositions(b) :
              p.downsample # <<>> => b.body[k].params # p.downsample[1].params
         /\ LayerParams(b) \cap LayerParams(p) = ConvParams(b)
         /\ BnParams(b) \cap LayerParams(p) = {}
         /\ \A s \in BnParams(b) : storage[s].kind = "bn" /\ storage[s].owner = i

\* C3 witness: a downsampling block built with a partner is on the heap
C3_Witness ==
  \E i \in 1..Len(blocks) :
    /\ blocks[i].partner # None
    /\ blocks[i].has_downsample
    /\ blocks[i].downsample[1].params = blocks[blocks[i].partner].downsample[1].params

\* the block at the end of i's partner chain (partners are older blocks)
RECURSIVE Primary(_)
Primary(i) == IF blocks[i].partner = None THEN i ELSE Primary(blocks[i].partner)

\* C4: partners are older blocks, so the partner relation has no cycle; every
\* convolution of every block is the convolution at the same position of the
\* block's primary, which was built without a partner and owns the storage.
C4_SinglePrimaryOwner ==
  /\ \A i \in 1..Len(blocks) : blocks[i].partner \in 0..(i - 1)
  /\ \A i \in 1..Len(blocks) :
       LET b == blocks[i]
           r == blocks[Primary(i)]
       IN /\ r.partner = None
          /\ \A k \in ConvPositions(b) :
               /\ b.body[k].params = r.body[k].params
               /\ storage[b.body[k].params].owner = Primary(i)
          /\ b.downsample # <<>> =>
               /\ b.downsample[1].params = r.downsample[1].params
               /\ storage[b.downsample[1].params].owner = Primary(i)
          /\ \A q \in 1..Len(blocks) :
               (ConvParams(blocks[q]) \cap ConvParams(b) # {}) => Primary(q) = Primary(i)

\* C4 witness: a block whose partner itself was built with a partner
C4_Witness ==
  \E i \in 1..Len(blocks) :
    /\ blocks[i].partner # None
    /\ blocks[blocks[i].partner].partner # None
    /\ blocks[i].variant = "BasicBlockV2Enas"
    /\ Primary(i) # blocks[i].partner

\* value read through a layer that references storage s
Read(s) == storage[s].value

Aliased ==
  \A i \in 1..Len(blocks) :
    blocks[i].partner # None =>
      LET b == blocks[i]
          p == blocks[b.partner]
      IN /\ \A k \in ConvPositions(b) : Read(b.body[k].params) = Read(p.body[k].params)
         /\ b.downsample # <<>> => Read(b.downsample[1].params) = Read(p.downsample[1].params)

\* an update of a batchnorm leaves every value read through the other blocks
BatchNormUpdateIsLocal ==
  (last'.op = "update" /\ storage[last'.params].kind = "bn") =>
    \A i \in 1..Len(blocks) :
      i # storage[last'.params].owner =>
        \A s \in LayerParams(blocks[i]) : storage'[s].value = storage[s].value

\* C5: after every step, a block built with a partner reads in each of its
\* convolutions the value the partner reads in the same convolution, and an
\* update of a batchnorm changes no value read through another block.
C5_UpdatesVisibleThroughAliases == [][Aliased' /\ BatchNormUpdateIsLocal]_vars

\* C5 witness: a convolution referenced by two blocks has been updated
C5_Witness ==
  /\ last.op = "update"
  /\ Read(last.params) # InitialValue
  /\ storage[last.params].kind = "qconv"
  /\ Cardinality({i \in 1..Len(blocks) : last.params \in ConvParams(blocks[i])}) >= 2

\* ============================================================ assembler
LastIsAssembly == last.op \in {"assemble", "get_resnet_enas"}
LastIsStandard ==
  /\ last.op = "get_resnet_enas"
  /\ last.num_layers \in SupportedDepths
  /\ last.version \in {1, 2}

RECURSIVE SumSeq(_)
SumSeq(q) == IF q = <<>> THEN 0 ELSE Head(q) + SumSeq(Tail(q))

\* the k-th block request opens its stage
IsFirstOfStage(k) ==
  k = 1 \/ requests[k - 1].stage_index # requests[k].stage_index

StageRequests(stage_index) ==
  {k \in 1..Len(requests) : requests[k].stage_index = stage_index}

\* C6: in stage i (0-indexed) the first block is requested with stride 1 if
\* i = 0 else 2, channels = channel_schedule[i+1], input_channels =
\* channel_schedule[i] and has_downsample = (channels # input_channels); every
\* later block of the stage with stride 1, no downsample and input_channels =
\* the stage's channels; a network that is returned has num_layers blocks per stage.
C6_StageBlockArguments ==
  LastIsAssembly =>
    /\ \A k \in 1..Len(requests) :
         LET i == requests[k].stage_index - 1
             a == requests[k].args
         IN /\ i \in 0..(Len(last.layers) - 1)
            /\ k > 1 => requests[k - 1].stage_index \in {i, i + 1}
            /\ a.channels = last.channels[i + 2]
            /\ IF IsFirstOfStage(k)
                 THEN /\ a.stride = (IF i = 0 THEN 1 ELSE 2)
                      /\ a.in_channels = last.channels[i + 1]
                      /\ a.downsample = (a.channels # a.in_channels)
                 ELSE /\ a.stride = 1
                      /\ a.downsample = FALSE
                      /\ a.in_channels = last.channels[i + 2]
    /\ last.status = "ok" =>
         \A stage_index \in 1..Len(last.layers) :
           Cardinality(StageRequests(stage_index)) = last.layers[stage_index]

\* C6 witness: a V2 network of several stages was returned, one stage of which
\* has a later block and one of which starts with a striding, downsampling block
C6_Witness ==
  /\ LastIsAssembly
  /\ last.status = "ok"
  /\ net.class = "ResNetV2Enas"
  /\ \E k \in 1..Len(requests) : ~IsFirstOfStage(k) /\ requests[k].stage_index > 1
  /\ \E k \in 1..Len(requests) :
       IsFirstOfStage(k) /\ requests[k].args.stride = 2 /\ requests[k].args.downsample

BlockPositions(n) == {k \in 1..Len(n.features) : n.features[k].kind = "block"}

\* C7 as stated: get_resnet_enas(1, 50) returns a network with 16 bottleneck
\* blocks, the first block of stage 1 with stride 1 and the first blocks of
\* stages 2 to 4 with stride 2.
C7_ResNet50V1Has16Bottlenecks ==
  (last.op = "get_resnet_enas" /\ last.version = 1 /\ last.num_layers = 50
     /\ ~last.pretrained)
    => /\ last.status = "ok"
       /\ Cardinality(BlockPositions(net)) = 16
       /\ \A k \in BlockPositions(net) :
            blocks[net.features[k].block].variant = "BottleneckV1Enas"
       /\ \A k \in 1..Len(requests) :
            IsFirstOfStage(k) =>
              requests[k].args.stride = (IF requests[k].stage_index = 1 THEN 1 ELSE 2)

\* C8: a returned network has features [batchnorm(scale=False), stem, batchnorm,
\* blocks, relu, pool, flatten] for V1 and [batchnorm(scale=False), stem, blocks,
\* batchnorm, relu, pool, flatten] for V2, the blocks being those requested, in
\* the order requested; enas_sequential ends with the head and has
\* sum(layers) + 7 elements.
C8_LayerOrder ==
  (LastIsAssembly /\ last.status = "ok") =>
    LET f == net.features
        n == SumSeq(last.layers)
        first == IF net.class = "ResNetV1Enas" THEN 3 ELSE 2
        seq == enas_sequential(net)
    IN /\ Len(f) = n + 6
       /\ Len(requests) = n
       /\ f[1] = InputBatchNorm
       /\ f[2] = InitialLayers(last.channels[1])
       /\ IF net.class = "ResNetV1Enas" THEN f[3] = HeadBatchNorm
                                        ELSE f[n + 3] = HeadBatchNorm
       /\ \A k \in 1..n :
            /\ f[first + k].kind = "block"
            /\ f[first + k].block \in 1..Len(blocks)
            /\ k > 1 => f[first + k].block > f[first + k - 1].block
            /\ blocks[f[first + k].block].variant = last.block
            /\ blocks[f[first + k].block].channels = requests[k].args.channels
            /\ blocks[f[first + k].block].stride = requests[k].args.stride
       /\ f[n + 4] = Relu
       /\ f[n + 5] = GlobalAvgPool2D
       /\ f[n + 6] = Flatten
       /\ Len(seq) = n + 7
       /\ seq[Len(seq)] = net.output
       /\ net.output.kind = "Dense"
       /\ \A k \in 1..(n + 6) : seq[k] = f[k]

\* C8 witness: a V2 network of at least two stages was returned
C8_Witness ==
  /\ LastIsAssembly
  /\ last.status = "ok"
  /\ net.class = "ResNetV2Enas"
  /\ Len(last.layers) >= 2
  /\ net.features[Len(net.features) - 3] = HeadBatchNorm

\* C9: in every standard configuration each block is requested with
\* has_downsample exactly when channels # input_channels or stride > 1; none
\* is requested with stride 2 and no downsample.
C9_DownsampleIffShapeChanges ==
  LastIsStandard =>
    \A k \in 1..Len(requests) :
      LET a == requests[k].args
      IN /\ a.downsample <=> (a.channels # a.in_channels \/ a.stride > 1)
         /\ ~(a.stride = 2 /\ ~a.downsample)

\* C9 witness: a standard network whose requests include a striding,
\* downsampling block and a block that keeps the shape
C9_Witness ==
  /\ LastIsStandard
  /\ last.status = "ok"
  /\ \E k \in 1..Len(requests) : requests[k].args.stride = 2 /\ requests[k].args.downsample
  /\ \E k \in 1..Len(requests) : requests[k].args.stride = 1 /\ ~requests[k].args.downsample

\* C10: for every supported depth and version the registry's layer counts are
\* one fewer than its channel schedule, so the assembler's length assertion
\* does not fail.
C10_ScheduleLengthsAgree ==
  LastIsStandard =>
    /\ Len(last.layers) = Len(last.channels) - 1
    /\ Len(last.layers) > 0
    /\ last.status # "AssertionError"

\* C10 witness: a standard configuration was looked up and its network returned
C10_Witness ==
  /\ LastIsStandard
  /\ last.status = "ok"
  /\ Len(last.layers) = 4
  /\ Len(last.channels) = 5

\* ------------------------------------------------- claims: the registry

LastIsRegistryCall == last.op = "get_resnet_enas"

\* C11: get_resnet_enas fails with the invalid-configuration error (a failed
\* assert) and builds no network, requests no block and leaves the heap as it
\* was, whenever num_layers is not one of 18, 34, 50, 101, 152 or version is
\* not 1 or 2; version 3 with depth 18 is such a call.
C11_InvalidConfigurationRejected ==
  (LastIsRegistryCall
     /\ (last.num_layers \notin {18, 34, 50, 101, 152} \/ last.version \notin {1, 2}))
    => /\ last.status = "AssertionError"
       /\ net = NoNet
       /\ requests = <<>>
       /\ blocks = <<>> /\ storage = <<>>

\* the call with version 3 and depth 18 has been rejected
C11_Witness ==
  /\ LastIsRegistryCall
  /\ last.version = 3 /\ last.num_layers = 18
  /\ last.status = "AssertionError"
  /\ net = NoNet

\* C12: a registry call with pretrained = TRUE ends with the explicit
\* unsupported-operation error (the raised ValueError) for every supported
\* version and depth, and returns no network.
C12_PretrainedAlwaysUnsupported ==
  (LastIsRegistryCall /\ last.pretrained
     /\ last.version \in {1, 2} /\ last.num_layers \in SupportedDepths)
    => /\ last.status = "ValueError"
       /\ net = NoNet

\* ------------------------------------- claims: the assembler's checks

LastIsLatency == last.op = "latency_function"
\* the bit width of the block the last latency call was made on
LastBits == blocks[last.block].bits
\* (96 + 9 * bits) / 128
ClosedForm(bits) == Rational(96 + 9 * bits, 128)
\* the estimate of a block of the given bit width
LatencyOfBits(bits) == latency_function([bits |-> bits], 0)

\* C14 as stated: latency_function returns exactly 3 when bits = 32 and
\* (96 + 9 * bits) / 128 otherwise, so that bits = 1 gives exactly
\* 2.30625 (= 369/160); the branches agree at 32 and the result is
\* strictly increasing in bits over 1..32.
C14_LatencyValuesAsClaimed ==
  LastIsLatency =>
    /\ LastBits = 32 => last.result = Rational(3, 1)
    /\ last.result = ClosedForm(LastBits)
    /\ LastBits = 1 => last.result = Rational(369, 160)
    /\ \A b \in 1..31 : RLess(LatencyOfBits(b), LatencyOfBits(b + 1))

\* C14, amended: latency_function returns exactly 3 when bits = 32 and
\* (96 + 9 * bits) / 128 otherwise, which is 3 at bits = 32 too; bits = 1
\* gives exactly 105/128 = 0.8203125; the estimate is strictly increasing
\* in bits over 1..32.
C14_LatencyValues ==
  LastIsLatency =>
    /\ LastBits = 32 => last.result = Rational(3, 1)
    /\ last.result = ClosedForm(LastBits)
    /\ LastBits = 1 => last.result = Rational(105, 128)
    /\ \A b \in 1..31 : RLess(LatencyOfBits(b), LatencyOfBits(b + 1))

\* a block of one bit has been asked for its estimate
C14_Witness ==
  /\ LastIsLatency
  /\ LastBits = 1
  /\ last.result = Rational(105, 128)

\* C15: latency_function depends on the block's bits only: the result of a
\* call equals the estimate of every block of the same bits, whatever the
\* measured_forward_latency argument and whatever that block's variant,
\* channels, stride or downsample; and the call changes no block and no
\* parameter.
C15_LatencyDependsOnBitsOnly ==
  [][(last'.op = "latency_function")
       => /\ blocks' = blocks /\ storage' = storage
          /\ \A j \in 1..Len(blocks), m \in MeasuredLatencies :
               blocks[j].bits = blocks[last'.block].bits
                 => latency_function(blocks[j], m) = last'.result]_vars

\* a call with a measurement, on a block that shares its bits with a block
\* of the other variant, other channels, other stride and other downsample
C15_Witness ==
  /\ LastIsLatency
  /\ last.measured = 5
  /\ \E j \in 1..Len(blocks) :
       /\ blocks[j].bits = LastBits
       /\ blocks[j].variant # blocks[last.block].variant
       /\ blocks[j].channels # blocks[last.block].channels
       /\ blocks[j].stride # blocks[last.block].stride
       /\ blocks[j].has_downsample # blocks[last.block].has_downsample

\* the version number in a class name
VersionOf(class) ==
  IF class \in {"ResNetV1Enas", "BasicBlockV1Enas", "BottleneckV1Enas"} THEN 1 ELSE 2

\* C16: for version v in {1, 2} and a supported depth d the registry calls
\* assembler class ResNetV{v}Enas with block class BasicBlockV{v}Enas for
\* d = 18, 34 and BottleneckV{v}Enas for d = 50, 101, 152, and with the
\* layer counts and channel schedule of resnet_spec[d]; the block version
\* equals the network version, also in the network and the blocks built.
C16_RegistryDispatch ==
  LastIsStandard =>
    /\ last.class = (IF last.version = 1 THEN "ResNetV1Enas" ELSE "ResNetV2Enas")
    /\ last.block =
         (IF last.num_layers \in {18, 34}
            THEN (IF last.version = 1 THEN "BasicBlockV1Enas" ELSE "BasicBlockV2Enas")
            ELSE (IF last.version = 1 THEN "BottleneckV1Enas" ELSE "BottleneckV2Enas"))
    /\ last.layers = resnet_spec(last.num_layers).layers
    /\ last.channels = resnet_spec(last.num_layers).channels
    /\ VersionOf(last.block) = last.version /\ VersionOf(last.class) = last.version
    /\ net # NoNet => net.class = last.class
    /\ \A b \in 1..Len(blocks) : blocks[b].variant = last.block

\* ResNet-34 of version 2 has been built from BasicBlockV2Enas blocks
C16_Witness ==
  /\ LastIsStandard
  /\ last.version = 2 /\ last.num_layers = 34
  /\ last.status = "ok"
  /\ net.class = "ResNetV2Enas"
  /\ Len(blocks) = 16
  /\ \A b \in 1..Len(blocks) : blocks[b].variant = "BasicBlockV2Enas"

\* ----------------------------------- claims: the network after assembly

\* C17: reads of enas_sequential and calls of latency_function leave the
\* network's features and head, the blocks and the parameters as they were,
\* however many are made, and every read of enas_sequential yields the
\* features in their order followed by the head as the last element.
C17_TopologyImmutable ==
  [][(last'.op \in {"enas_sequential", "latency_function"})
       => /\ net' = net
          /\ blocks' = blocks /\ storage' = storage
          /\ last'.op = "enas_sequential"
               => /\ Len(last'.result) = Len(net.features) + 1
                  /\ \A k \in 1..Len(net.features) : last'.result[k] = net.features[k]
                  /\ last'.result[Len(last'.result)] = net.output]_vars

\* the flattened view of a built V1 network with several blocks has been read
C17_Witness ==
  /\ last.op = "enas_sequential"
  /\ net.class = "ResNetV1Enas"
  /\ Len(blocks) >= 2
  /\ Len(last.result) = Len(net.features) + 1
  /\ last.result[Len(last.result)] = net.output

\* --------------------------------------------- claims: forward and sharing

\* the two blocks have the same BlockSpec
SameBlockSpec(b, p) ==
  /\ b.variant = p.variant
  /\ b.channels = p.channels /\ b.stride = p.stride /\ b.in_channels = p.in_channels
  /\ b.bits = p.bits /\ b.has_downsample = p.has_downsample

\* the batchnorms of the two blocks hold the same values, layer by layer
SameBatchNorms(b, p) ==
  /\ (b.bn # None) => Read(b.bn) = Read(p.bn)
  /\ \A k \in 1..Len(b.body) :
       b.body[k].type = "bn" => Read(b.body[k].params) = Read(p.body[k].params)
  /\ \A k \in 1..Len(b.downsample) :
       b.downsample[k].type = "bn"
         => Read(b.downsample[k].params) = Read(p.downsample[k].params)

\* C18: a block built with a partner of the same BlockSpec computes, for
\* the same input and the same values in the batchnorms, the output the
\* partner computes, through the same steps (the two output terms are equal),
\* whatever updates the weights have received.
C18_SharedForwardEquivalent ==
  \A i \in 1..Len(blocks) :
    blocks[i].partner # None =>
      LET b == blocks[i]
          p == blocks[b.partner]
      IN (SameBlockSpec(b, p) /\ SameBatchNorms(b, p))
           => \A x \in ForwardInputs :
                hybrid_forward(b, x, storage) = hybrid_forward(p, x, storage)

\* a downsampling block and its partner of the same BlockSpec, after the
\* shortcut convolution they share has been updated
C18_Witness ==
  /\ last.op = "update"
  /\ Read(last.params) # InitialValue
  /\ \E i \in 1..Len(blocks) :
       /\ blocks[i].partner # None
       /\ blocks[i].downsample # <<>>
       /\ last.params = blocks[i].downsample[1].params
       /\ SameBlockSpec(blocks[i], blocks[blocks[i].partner])
       /\ SameBatchNorms(blocks[i], blocks[blocks[i].partner])
       /\ hybrid_forward(blocks[i], Input(1), storage)
            = hybrid_forward(blocks[blocks[i].partner], Input(1), storage)

\* C19: BottleneckV2Enas with downsample = TRUE builds its shortcut
\* convolution from the attribute downsample_conv_weights, so the block is
\* constructed and its downsample_conv_weights is the parameter the shortcut
\* convolution references.
C19_ShortcutFromRecordedWeights ==
  (last.op = "construct" /\ last.variant = "BottleneckV2Enas" /\ last.args.downsample)
    => /\ last.status = "ok"
       /\ blocks[last.result].downsample[1].params
            = blocks[last.result].downsample_conv_weights

\* C20: in every stage only the first block is requested with the network's
\* grad_cancel; every later block of the stage is requested without it and
\* holds the block default 1.0, whatever grad_cancel the network was given;
\* the blocks built hold the value they were requested with.
C20_GradCancelFirstBlockOnly ==
  LastIsAssembly =>
    /\ \A k \in 1..Len(requests) :
         requests[k].args.grad_cancel =
           (IF IsFirstOfStage(k) THEN last.grad_cancel ELSE DefaultGradCancel)
    /\ last.status = "ok" =>
         /\ net.grad_cancel = last.grad_cancel
         /\ Len(blocks) = Len(requests)
         /\ \A k \in 1..Len(blocks) :
              blocks[k].grad_cancel = requests[k].args.grad_cancel

\* a network given grad_cancel 2 was built with a stage of two blocks: the
\* first holds 2, the second the default
C20_Witness ==
  /\ LastIsAssembly
  /\ last.status = "ok"
  /\ last.grad_cancel = 2
  /\ \E k \in 2..Len(blocks) :
       /\ ~IsFirstOfStage(k) /\ IsFirstOfStage(k - 1)
       /\ blocks[k - 1].grad_cancel = 2
       /\ blocks[k].grad_cancel = DefaultGradCancel

\* ------------------------------------------ claims: the evaluation script

\* the number of samples counted so far
Counted(e) == e.num_correct + e.num_wrong

\* C21: on imagenet, while every batch holds batch_size predictions, the
\* count num_correct + num_wrong never exceeds 50000 after a batch: a batch
\* that fits is counted whole, a batch that would cross 50000 is cut by
\* exactly the excess, a batch that arrives at 50000 adds nothing, and every
\* sample counted is added to exactly one of num_correct and num_wrong.
C21_CountCappedAt50000 ==
  [][(ev.pc = "loop" /\ ev'.i = ev.i + 1
        /\ ev.opt.dataset = "imagenet" /\ ev'.full)
       => LET batch_size == ev.opt.batch_size
              excess == Counted(ev) + batch_size - 50000
          IN /\ Counted(ev') <= 50000
             /\ ev'.counted = (IF excess > 0 THEN batch_size - excess ELSE batch_size)
             /\ Counted(ev) = 50000 => Counted(ev') = 50000 /\ ev'.counted = 0
             /\ ev'.num_correct >= ev.num_correct /\ ev'.num_wrong >= ev.num_wrong
             /\ Counted(ev') = Counted(ev) + ev'.counted]_vars

\* batches of 30000: the second was cut by 10000 and the third, arriving at
\* 50000, was dropped whole
C21_Witness ==
  /\ ev.pc = "loop"
  /\ ev.opt.dataset = "imagenet" /\ ev.opt.batch_size = 30000 /\ ev.full
  /\ ev.i = 3
  /\ ev.padding = 30000 /\ ev.counted = 0
  /\ Counted(ev) = 50000
  /\ ev.num_correct > 0 /\ ev.num_wrong > 0

RECURSIVE ElementsOf(_, _)
ElementsOf(d, K) ==
  IF K = {} THEN 0
  ELSE LET k == CHOOSE x \in K : TRUE
       IN Len(d[k].data) + ElementsOf(d, K \ {k})

\* the names in a list of names
NamesIn(list) == {list[j] : j \in 1..Len(list)}

\* C23: prepare_net puts every parameter in exactly one class, binary if
\* its name contains "qconv" and full precision otherwise; binary_weights and
\* fp_weights count the elements of the two classes and add up to all
\* elements; bits_required = binary_weights + 32 * fp_weights; the binary
\* parameters hold the sign of what they held and every full-precision
\* parameter is as it was.
C23_PrepareNetClasses ==
  ev.pc = "prepared" =>
    LET d == ev.loaded
        p == ev.params
        r == ev.report
        all == 1..Len(d)
        binary == {k \in all : Contains(d[k].name, qconv)}
    IN /\ NamesIn(r.binary_params) = {d[k].name : k \in binary}
       /\ NamesIn(r.full_precision_params) = {d[k].name : k \in all \ binary}
       /\ Len(r.binary_params) + Len(r.full_precision_params) = Len(d)
       /\ r.binary_weights = ElementsOf(d, binary)
       /\ r.fp_weights = ElementsOf(d, all \ binary)
       /\ r.binary_weights + r.fp_weights = ElementsOf(d, all)
       /\ r.bits_required = r.binary_weights + 32 * r.fp_weights
       /\ Len(p) = Len(d)
       /\ \A k \in all \ binary : p[k] = d[k]
       /\ \A k \in binary :
            /\ p[k].name = d[k].name /\ p[k].shape = d[k].shape
            /\ Len(p[k].data) = Len(d[k].data)
            /\ \A j \in 1..Len(d[k].data) :
                 p[k].data[j] = (IF d[k].data[j] < 0 THEN -1 ELSE 1)

\* a network with a parameter that has "qconv" inside its name and one whose
\* name only comes close: the first was overwritten, the second counted as
\* full precision
C23_Witness ==
  /\ ev.pc = "prepared"
  /\ Len(ev.loaded) = 2
  /\ ev.loaded[1].name = <<"l", "1", "_", "q", "c", "o", "n", "v", "_", "w">>
  /\ ev.loaded[2].name = <<"q", "c", "o", "n", "_", "v">>
  /\ ev.params[1].data # ev.loaded[1].data
  /\ ev.report.binary_weights = 2 /\ ev.report.fp_weights = 1
  /\ ev.report.bits_required = 34


\* ------------------------------------------- claims: the training script
\* the four steps before the search are done in the order of the code
TrainOrder ==
  train.pc = "returned" => train.done = TrainingSteps

\* the graph that is saved is the graph of the network that was passed
TrainSavesGraphOfNet ==
  train.pc = "graph_saved" => train.symbolic = train.net

\* C24: train_net_enas initializes the network, runs a forward pass, calls
\* evaluate_latency and runs the scheduler, in that order; whenever
\* scheduler.run returns, the function goes on to save the symbolic graph of
\* the network it was passed, prunes that same network and reaches the export
\* of the sampled model without error.
C24_TrainThenExport ==
  /\ []TrainOrder
  /\ []TrainSavesGraphOfNet
  /\ (train.pc = "returned") ~>
       (/\ train.pc = "exported"
        /\ train.error = "none"
        /\ train.symbolic = train.net
        /\ train.pruned = train.net)

====
